---- MODULE Spec2Model ----
(***************************************************************************)
(* Model of app.py, the Streamlit "Application Compliance Checker":        *)
(* the standards-file normalizer (read_standards_file), the compliance     *)
(* analyzer (analyze_compliance: prompt rendering, one request, cleaning   *)
(* and JSON decoding of the reply) and the script run that ties them to    *)
(* st.session_state.                                                       *)
(*                                                                         *)
(* Text is modelled as a sequence of one-character strings, so that        *)
(* strip(), lower(), startswith(), endswith(), slicing, substring tests    *)
(* and json.loads are computed character by character.  A Python value is  *)
(* a record [t |-> type tag, v |-> payload].                               *)
(***************************************************************************)
EXTENDS Integers, Sequences, FiniteSets, TLC

VARIABLES
    app_file,        \* file held by the "app_upload" uploader, or NoFile
    standards_file,  \* file held by the "standards_upload" uploader, or NoFile
    api_key,         \* text of the sidebar API-key input
    app_content,     \* st.session_state.app_content
    standards,       \* st.session_state.standards
    findings,        \* st.session_state.findings
    button_shown,    \* the last script run rendered the 'Analyze Compliance' button
    triggers,        \* number of script runs in which the button returned True
    requests,        \* number of client.messages.create calls issued so far
    run,             \* what the last script run did (its locals and messages)
    fn_pc,           \* position of the single-function runs: "off", "ready", "done"
    fn_in,           \* argument of the single-function run
    fn_out           \* its result

vars == <<app_file, standards_file, api_key, app_content, standards, findings,
          button_shown, triggers, requests, run, fn_pc, fn_in, fn_out>>

sessionVars == <<app_file, standards_file, api_key, app_content, standards,
                 findings, button_shown, triggers, requests, run>>

-----------------------------------------------------------------------------
(* Bounds of the model.                                                    *)
MaxCols == 4
MaxRows == 1
MaxFences == 2
MaxRecords == 2
MaxTriggers == 3

-----------------------------------------------------------------------------
(* Python values.                                                          *)
None == [t |-> "None", v |-> <<>>]
Str(chars) == [t |-> "str", v |-> chars]
NaN == [t |-> "nan", v |-> <<>>]
Num(digits) == [t |-> "num", v |-> digits]
PyTrue == [t |-> "true", v |-> <<>>]
PyFalse == [t |-> "false", v |-> <<>>]
Arr(items) == [t |-> "arr", v |-> items]
Obj(members) == [t |-> "obj", v |-> members]
Df(cols, rws) == [t |-> "df", v |-> [columns |-> cols, rows |-> rws]]

(* bool(x), as `if x:` evaluates it.  float('nan') is true; a number is     *)
(* true unless it is zero; a str, list or dict is true unless empty.        *)
Truthy(x) ==
    CASE x.t = "None" -> FALSE
      [] x.t = "false" -> FALSE
      [] x.t = "true" -> TRUE
      [] x.t = "nan" -> TRUE
      [] x.t = "num" -> \E i \in 1..Len(x.v) : x.v[i] # "0"
      [] OTHER -> x.v # <<>>

(* str(x) inside an f-string, for the values a DataFrame cell holds.        *)
PyStr(x) == IF x.t = "nan" THEN <<"n", "a", "n">> ELSE x.v

-----------------------------------------------------------------------------
(* str methods.                                                            *)
Whitespace == {" ", "\t", "\n", "\r"}
UpperCase == <<"A", "B", "C", "D", "E", "F", "G", "H", "I", "J", "K", "L", "M",
               "N", "O", "P", "Q", "R", "S", "T", "U", "V", "W", "X", "Y", "Z">>
LowerCase == <<"a", "b", "c", "d", "e", "f", "g", "h", "i", "j", "k", "l", "m",
               "n", "o", "p", "q", "r", "s", "t", "u", "v", "w", "x", "y", "z">>

LowerChar(c) ==
    IF \E i \in 1..26 : UpperCase[i] = c
    THEN LowerCase[CHOOSE i \in 1..26 : UpperCase[i] = c]
    ELSE c

Lower(s) == [i \in 1..Len(s) |-> LowerChar(s[i])]

Strip(s) ==
    LET keep == {i \in 1..Len(s) : s[i] \notin Whitespace}
    IN  IF keep = {} THEN <<>>
        ELSE SubSeq(s, CHOOSE i \in keep : \A j \in keep : i <= j,
                       CHOOSE i \in keep : \A j \in keep : j <= i)

StartsWith(s, p) == Len(p) <= Len(s) /\ SubSeq(s, 1, Len(p)) = p
EndsWith(s, p) == Len(p) <= Len(s) /\ SubSeq(s, Len(s) - Len(p) + 1, Len(s)) = p
Contains(s, sub) ==
    \E i \in 0..(Len(s) - Len(sub)) : SubSeq(s, i + 1, i + Len(sub)) = sub
DropFirst(s, n) == SubSeq(s, n + 1, Len(s))
DropLast(s, n) == SubSeq(s, 1, Len(s) - n)
Digits == <<"0", "1", "2", "3", "4", "5", "6", "7", "8", "9">>

-----------------------------------------------------------------------------
(* read_standards_file                                                     *)
ColID == <<"I", "D">>
ColCategory == <<"C", "a", "t", "e", "g", "o", "r", "y">>
ColRequirement == <<"R", "e", "q", "u", "i", "r", "e", "m", "e", "n", "t">>
ColDescription == <<"D", "e", "s", "c", "r", "i", "p", "t", "i", "o", "n">>
NoMapping == <<>>

kw_id == <<"i", "d">>
kw_standard == <<"s", "t", "a", "n", "d", "a", "r", "d">>
kw_category == <<"c", "a", "t", "e", "g", "o", "r", "y">>
kw_type == <<"t", "y", "p", "e">>
kw_requirement == <<"r", "e", "q", "u", "i", "r", "e", "m", "e", "n", "t">>
kw_description == <<"d", "e", "s", "c", "r", "i", "p", "t", "i", "o", "n">>
kw_detail == <<"d", "e", "t", "a", "i", "l">>

(* The chain with the Requirement test ahead of the ID test.                *)
MapHeader_RequirementFirst(col) ==
    LET col_lower == Lower(col)
    IN  IF Contains(col_lower, kw_requirement)
          THEN ColRequirement
        ELSE IF Contains(col_lower, kw_id) \/ Contains(col_lower, kw_standard)
          THEN ColID
        ELSE IF Contains(col_lower, kw_category) \/ Contains(col_lower, kw_type)
          THEN ColCategory
        ELSE IF Contains(col_lower, kw_description) \/ Contains(col_lower, kw_detail)
          THEN ColDescription
        ELSE NoMapping

(* The if/elif chain of the column loop, for one (already stripped) column  *)
(* label; NoMapping when no branch is taken.                                *)
MapHeader(col) ==
    LET col_lower == Lower(col)
    IN  IF Contains(col_lower, kw_id) \/ Contains(col_lower, kw_standard)
          THEN ColID
        ELSE IF Contains(col_lower, kw_category) \/ Contains(col_lower, kw_type)
          THEN ColCategory
        ELSE IF Contains(col_lower, kw_requirement) \/ Contains(col_lower, kw_standard)
          THEN ColRequirement
        ELSE IF Contains(col_lower, kw_description) \/ Contains(col_lower, kw_detail)
          THEN ColDescription
        ELSE NoMapping

Range(s) == {s[i] : i \in 1..Len(s)}

(* col_mapping after the loop: a dict keyed by column label.                *)
ColMapping(columns) ==
    [c \in {h \in Range(columns) : MapHeader(h) # NoMapping} |-> MapHeader(c)]

(* df.rename(columns=col_mapping)                                           *)
Rename(columns, col_mapping) ==
    [i \in 1..Len(columns) |->
        IF columns[i] \in DOMAIN col_mapping THEN col_mapping[columns[i]]
        ELSE columns[i]]

(* Positions of the columns labelled `label`, in column order.              *)
Positions(columns, label) ==
    LET F[i \in 0..Len(columns)] ==
            IF i = 0 THEN <<>>
            ELSE IF columns[i] = label THEN Append(F[i - 1], i) ELSE F[i - 1]
    IN  F[Len(columns)]

CanonicalColumns == <<ColID, ColCategory, ColRequirement, ColDescription>>

(* df[[...]]: every column carrying each requested label, in the order of   *)
(* the request; a label no column carries raises KeyError.                  *)
SelectPositions(columns, labels) ==
    LET F[k \in 0..Len(labels)] ==
            IF k = 0 THEN <<>> ELSE F[k - 1] \o Positions(columns, labels[k])
    IN  F[Len(labels)]

csv_ext == <<".", "c", "s", "v">>
xlsx_ext == <<".", "x", "l", "s", "x">>
xls_ext == <<".", "x", "l", "s">>

(* A selection that skips the labels no column carries.                     *)
GetItem_SkipMissing(columns, rws, labels) ==
    LET pos == SelectPositions(columns, labels)
    IN  [exc |-> "none",
         ret |-> Df([k \in 1..Len(pos) |-> columns[pos[k]]],
                    [r \in 1..Len(rws) |-> [k \in 1..Len(pos) |-> rws[r][pos[k]]]])]

(* df[['ID', 'Category', 'Requirement', 'Description']] on a frame with    *)
(* the given column labels and rows.                                       *)
GetItem(columns, rws, labels) ==
    IF \E k \in 1..Len(labels) : labels[k] \notin Range(columns)
    THEN [exc |-> "KeyError", ret |-> None]
    ELSE LET pos == SelectPositions(columns, labels)
         IN  [exc |-> "none",
              ret |-> Df([k \in 1..Len(pos) |-> columns[pos[k]]],
                         [r \in 1..Len(rws) |->
                             [k \in 1..Len(pos) |-> rws[r][pos[k]]]])]

(* read_standards_file(file), where file.table is what pd.read_csv or      *)
(* pd.read_excel returns for the file.  The result records the exception   *)
(* that leaves the function (exc), the value returned (ret), the message   *)
(* given to st.error and the local col_mapping.                            *)
read_standards_file(file) ==
    IF ~(EndsWith(file.name, csv_ext) \/ EndsWith(file.name, xlsx_ext)
            \/ EndsWith(file.name, xls_ext))
    THEN [exc |-> "none", ret |-> None, st_error |-> "Unsupported file format",
          col_mapping |-> <<>>]
    ELSE
    LET stripped == [i \in 1..Len(file.table.columns) |-> Strip(file.table.columns[i])]
        col_mapping == ColMapping(stripped)
        renamed == Rename(stripped, col_mapping)
        hasDesc == ColDescription \in Range(renamed)
        columns2 == IF hasDesc THEN renamed ELSE Append(renamed, ColDescription)
        rows2 == IF hasDesc THEN file.table.rows
                 ELSE [r \in 1..Len(file.table.rows) |->
                          Append(file.table.rows[r], Str(<<>>))]
        sel == GetItem(columns2, rows2, CanonicalColumns)
    IN  [exc |-> sel.exc, ret |-> sel.ret, st_error |-> "none",
         col_mapping |-> col_mapping]

(* st.session_state.standards = read_standards_file(standards_file): the   *)
(* assignment happens only when the call returns.                          *)
StoreStandards(old, r) == IF r.exc = "none" THEN r.ret ELSE old

-----------------------------------------------------------------------------
(* read_docx: the paragraphs' text joined by "\n".                          *)
read_docx(file) ==
    LET F[i \in 0..Len(file.paragraphs)] ==
            IF i = 0 THEN <<>>
            ELSE IF i = 1 THEN file.paragraphs[1]
            ELSE F[i - 1] \o <<"\n">> \o file.paragraphs[i]
    IN  F[Len(file.paragraphs)]

-----------------------------------------------------------------------------
(* analyze_compliance: the standards block of the prompt.                   *)
lit_dash == <<" ", "-", " ">>
lit_colon == <<":", " ">>
lit_description == <<"D", "e", "s", "c", "r", "i", "p", "t", "i", "o", "n", ":", " ">>

(* row[label] for a row of a frame whose labels are distinct.               *)
Field(columns, row, label) == row[CHOOSE i \in 1..Len(columns) : columns[i] = label]

(* The text one iteration of the iterrows loop appends to standards_text.   *)
RenderRow(columns, row) ==
    <<"\n">> \o PyStr(Field(columns, row, ColID)) \o lit_dash
        \o PyStr(Field(columns, row, ColCategory)) \o lit_colon
        \o PyStr(Field(columns, row, ColRequirement)) \o <<"\n">>
        \o (IF Truthy(Field(columns, row, ColDescription))
            THEN lit_description \o PyStr(Field(columns, row, ColDescription)) \o <<"\n">>
            ELSE <<>>)

StandardsText(standards_df) ==
    LET F[i \in 0..Len(standards_df.v.rows)] ==
            IF i = 0 THEN <<>>
            ELSE F[i - 1] \o RenderRow(standards_df.v.columns, standards_df.v.rows[i])
    IN  F[Len(standards_df.v.rows)]

-----------------------------------------------------------------------------
(* analyze_compliance: "Clean up response".                                 *)
(* The grave accent U+0060, which a TLA+ string cannot hold, is the one     *)
(* character written as a longer string.                                   *)
Backtick == "U+0060"
fence == <<Backtick, Backtick, Backtick>>
fence_json == <<Backtick, Backtick, Backtick, "j", "s", "o", "n">>

(* The cleaned text, with the number of opening and closing markers the    *)
(* three if statements removed.                                            *)
CleanResponse(response_text) ==
    LET t0 == Strip(response_text)
        o1 == StartsWith(t0, fence_json)
        t1 == IF o1 THEN DropFirst(t0, 7) ELSE t0
        o2 == StartsWith(t1, fence)
        t2 == IF o2 THEN DropFirst(t1, 3) ELSE t1
        c1 == EndsWith(t2, fence)
        t3 == IF c1 THEN DropLast(t2, 3) ELSE t2
    IN  [text |-> Strip(t3),
         opened |-> (IF o1 THEN 1 ELSE 0) + (IF o2 THEN 1 ELSE 0),
         closed |-> IF c1 THEN 1 ELSE 0]

-----------------------------------------------------------------------------
(* json.loads, for the JSON texts built from arrays, objects, strings      *)
(* without escapes, non-negative integers and the three literals.          *)
At(s, i) == IF i >= 1 /\ i <= Len(s) THEN s[i] ELSE ""

SkipWs(s, i) ==
    CHOOSE j \in i..(Len(s) + 1) :
        /\ (j = Len(s) + 1 \/ s[j] \notin Whitespace)
        /\ \A k \in i..(j - 1) : s[k] \in Whitespace

ParseFail == [ok |-> FALSE, val |-> None, pos |-> 0]
Parsed(val, pos) == [ok |-> TRUE, val |-> val, pos |-> pos]

IsDigit(c) == \E d \in 1..10 : Digits[d] = c

HasAt(s, i, word) == i + Len(word) - 1 <= Len(s) /\ SubSeq(s, i, i + Len(word) - 1) = word

lit_null == <<"n", "u", "l", "l">>
lit_true == <<"t", "r", "u", "e">>
lit_false == <<"f", "a", "l", "s", "e">>

(* s[i] is the opening quote.                                               *)
ParseString(s, i) ==
    LET ends == {j \in (i + 1)..Len(s) : s[j] = "\""}
    IN  IF ends = {} THEN ParseFail
        ELSE LET j == CHOOSE x \in ends : \A y \in ends : x <= y
             IN  IF \E k \in (i + 1)..(j - 1) : s[k] \in {"\\", "\n", "\t", "\r"}
                 THEN ParseFail
                 ELSE Parsed(Str(SubSeq(s, i + 1, j - 1)), j + 1)

(* s[i] is a digit; a leading 0 is a number on its own.                     *)
ParseNumber(s, i) ==
    LET j == CHOOSE x \in i..Len(s) :
                 /\ \A k \in i..x : IsDigit(s[k])
                 /\ (x = Len(s) \/ ~IsDigit(s[x + 1]))
    IN  IF s[i] = "0" THEN Parsed(Num(<<"0">>), i + 1)
        ELSE Parsed(Num(SubSeq(s, i, j)), j + 1)

(* d[key] = val on a dict kept as the sequence of its items.                *)
DictSet(members, key, val) ==
    IF \E i \in 1..Len(members) : members[i].k = key
    THEN [i \in 1..Len(members) |->
            IF members[i].k = key THEN [k |-> key, val |-> val] ELSE members[i]]
    ELSE Append(members, [k |-> key, val |-> val])

RECURSIVE ParseValue(_, _)
RECURSIVE ParseElements(_, _, _)
RECURSIVE ParseMembers(_, _, _)

(* The value starting at s[i], i being past any whitespace.                 *)
ParseValue(s, i) ==
    LET c == At(s, i)
    IN  CASE c = "[" ->
               LET j == SkipWs(s, i + 1)
               IN  IF At(s, j) = "]" THEN Parsed(Arr(<<>>), j + 1)
                   ELSE ParseElements(s, j, <<>>)
          [] c = "{" ->
               LET j == SkipWs(s, i + 1)
               IN  IF At(s, j) = "}" THEN Parsed(Obj(<<>>), j + 1)
                   ELSE ParseMembers(s, j, <<>>)
          [] c = "\"" -> ParseString(s, i)
          [] IsDigit(c) -> ParseNumber(s, i)
          [] HasAt(s, i, lit_null) -> Parsed(None, i + 4)
          [] HasAt(s, i, lit_true) -> Parsed(PyTrue, i + 4)
          [] HasAt(s, i, lit_false) -> Parsed(PyFalse, i + 5)
          [] OTHER -> ParseFail

(* The rest of an array whose next element starts at s[i].                  *)
ParseElements(s, i, acc) ==
    LET r == ParseValue(s, i)
    IN  IF ~r.ok THEN ParseFail
        ELSE LET k == SkipWs(s, r.pos)
             IN  IF At(s, k) = "," THEN ParseElements(s, SkipWs(s, k + 1), Append(acc, r.val))
                 ELSE IF At(s, k) = "]" THEN Parsed(Arr(Append(acc, r.val)), k + 1)
                 ELSE ParseFail

(* The rest of an object whose next key starts at s[i].                     *)
ParseMembers(s, i, acc) ==
    IF At(s, i) # "\"" THEN ParseFail
    ELSE LET key == ParseString(s, i)
         IN  IF ~key.ok THEN ParseFail
             ELSE LET c == SkipWs(s, key.pos)
                  IN  IF At(s, c) # ":" THEN ParseFail
                      ELSE LET r == ParseValue(s, SkipWs(s, c + 1))
                           IN  IF ~r.ok THEN ParseFail
                               ELSE LET k == SkipWs(s, r.pos)
                                        acc2 == DictSet(acc, key.val.v, r.val)
                                    IN  IF At(s, k) = ","
                                          THEN ParseMembers(s, SkipWs(s, k + 1), acc2)
                                        ELSE IF At(s, k) = "}"
                                          THEN Parsed(Obj(acc2), k + 1)
                                        ELSE ParseFail

(* json.loads(text): ok is FALSE where it raises JSONDecodeError.           *)
json_loads(text) ==
    LET r == ParseValue(text, SkipWs(text, 1))
    IN  IF r.ok /\ SkipWs(text, r.pos) = Len(text) + 1
        THEN [ok |-> TRUE, val |-> r.val]
        ELSE [ok |-> FALSE, val |-> None]

-----------------------------------------------------------------------------
(* analyze_compliance(app_content, standards_df, api_key) against a        *)
(* service that answers the one messages.create call with `outcome`:       *)
(* [kind |-> "raise", message] or [kind |-> "reply", text].                *)
(* The result gives the value returned (ret), the number of create calls   *)
(* made (calls), the standards block of the prompt sent (standards_text),  *)
(* the cleaning of the reply and the message passed to st.error, if any:   *)
(* the class of the exception and its str(), which for a JSONDecodeError is     *)
(* the decoder's message and position and quotes none of the text.         *)
NoError == [exc |-> "none", detail |-> <<>>]
NoCleaning == [text |-> <<>>, opened |-> 0, closed |-> 0]
decode_message == <<"E", "x", "p", "e", "c", "t", "i", "n", "g", " ", "v", "a", "l", "u", "e">>

(* return findings / except Exception: st.error(...); return None          *)
Decode(cleaned) ==
    LET d == json_loads(cleaned)
    IN  IF d.ok THEN [ret |-> d.val, st_error |-> NoError]
        ELSE [ret |-> None,
              st_error |-> [exc |-> "JSONDecodeError", detail |-> decode_message]]

(* A second call after a call that raised.                                  *)
CreateCalls_RetryOnError(outcome) == IF outcome.kind = "raise" THEN 2 ELSE 1

(* The number of client.messages.create calls one analyze_compliance call  *)
(* makes: the call sits once in the try block, outside any loop.           *)
CreateCalls(outcome) == 1

analyze_compliance(content, standards_df, outcome) ==
    LET standards_text == StandardsText(standards_df)
    IN  IF outcome.kind = "raise"
        THEN [ret |-> None, calls |-> CreateCalls(outcome), standards_text |-> standards_text,
              cleaning |-> NoCleaning,
              st_error |-> [exc |-> "APIError", detail |-> outcome.message]]
        ELSE LET cleaning == CleanResponse(outcome.text)
                 d == Decode(cleaning.text)
             IN  [ret |-> d.ret, calls |-> CreateCalls(outcome), standards_text |-> standards_text,
                  cleaning |-> cleaning, st_error |-> d.st_error]

(* An assignment made whatever the call returned.                           *)
StoreFindings_Always(old, ret) == ret

(* if findings: st.session_state.findings = findings                        *)
StoreFindings(old, ret) == IF Truthy(ret) THEN ret ELSE old

-----------------------------------------------------------------------------
(* Tables for the runs of read_standards_file alone: every list of up to   *)
(* MaxCols distinct headers of HeaderPool, with no row or MaxRows rows,    *)
(* whose cells name their source row and column.                           *)
HeaderPool == <<
    <<" ", "I", "D", " ">>,
    <<"i", "d">>,
    <<"S", "t", "a", "n", "d", "a", "r", "d", " ", "I", "D">>,
    <<"S", "t", "a", "n", "d", "a", "r", "d", " ", "R", "e", "q", "u", "i", "r", "e", "m", "e", "n", "t">>,
    <<"C", "a", "t", "e", "g", "o", "r", "y">>,
    <<"T", "y", "p", "e">>,
    <<"R", "e", "q", "u", "i", "r", "e", "m", "e", "n", "t", "s">>,
    <<"D", "e", "t", "a", "i", "l", "s", " ">>,
    <<"R", "e", "q", " ", "#">>,
    <<"\t", "D", "E", "S", "C", "R", "I", "P", "T", "I", "O", "N">> >>

SourceCell(r, c) == Str(<<"r", Digits[r + 1], "c", Digits[c + 1]>>)

HeaderChoices ==
    {f \in UNION {[1..k -> 1..Len(HeaderPool)] : k \in 1..MaxCols} :
        \A i, j \in DOMAIN f : i # j => f[i] # f[j]}

MkTable(f, n) ==
    [columns |-> [i \in DOMAIN f |-> HeaderPool[f[i]]],
     rows |-> [r \in 1..n |-> [c \in DOMAIN f |-> SourceCell(r, c)]]]

name_csv == <<"s", ".", "c", "s", "v">>
name_xlsx == <<"s", ".", "x", "l", "s", "x">>
name_upper == <<"S", ".", "C", "S", "V">>

NormInputs ==
    {[name |-> name_csv, table |-> MkTable(f, n)] : f \in HeaderChoices, n \in {0, MaxRows}}

-----------------------------------------------------------------------------
(* Inputs of the runs of analyze_compliance alone.                          *)
txt_A1 == <<"A", "1">>
txt_B2 == <<"B", "2">>
txt_Security == <<"S", "e", "c">>
txt_MFA == <<"U", "s", "e", " ", "M", "F", "A">>
txt_desc == <<"2", "F", "A">>

(* JSON texts and texts that are not JSON.                                  *)
body_empty_array == <<"[", "]">>
body_one == <<"[", "{", "\"", "s", "\"", ":", "\"", "D", "\"", "}", "]">>
body_two == <<"[", "{", "\"", "s", "\"", ":", "\"", "D", "\"", "}", ",", " ",
              "{", "\"", "s", "\"", ":", "\"", "C", "\"", "}", "]">>
body_numbers == <<"[", " ", "1", "2", " ", ",", "\n", "0", "]">>
body_object == <<"{", "\"", "s", "\"", ":", "\"", "D", "\"", "}">>
body_empty_object == <<"{", "}">>
body_number == <<"7">>
body_zero == <<"0">>
body_null == <<"n", "u", "l", "l">>
body_string == <<"\"", "x", "\"">>
body_not_json == <<"n", "o", "t", " ", "j", "s", "o", "n">>
body_truncated == <<"[", "{", "\"", "s", "\"", ":", "\"", "D", "\"", "}">>
body_prose == <<"[", "]", " ", "o", "k">>
body_blank == <<>>

JsonBodies == {body_empty_array, body_one, body_two, body_numbers, body_object,
               body_empty_object, body_number, body_zero, body_null, body_string}
NonJsonBodies == {body_not_json, body_truncated, body_prose, body_blank}
Bodies == JsonBodies \cup NonJsonBodies

RECURSIVE Flatten(_)
Flatten(parts) == IF parts = <<>> THEN <<>> ELSE Head(parts) \o Flatten(Tail(parts))

(* Up to MaxFences opening markers, a body, up to MaxFences closing        *)
(* markers, with or without line breaks and surrounding blanks.            *)
Openers == UNION {[1..k -> {fence, fence_json}] : k \in 0..MaxFences}
Closers == {[i \in 1..k |-> fence] : k \in 0..MaxFences}
Breaks == {<<>>, <<"\n">>}

ReplyTexts ==
    {pad \o Flatten(o) \o b1 \o body \o b2 \o Flatten(c) \o pad :
        pad \in {<<>>, <<" ">>}, o \in Openers, b1 \in Breaks, body \in Bodies,
        b2 \in Breaks, c \in Closers}

Reply(text) == [kind |-> "reply", text |-> text, message |-> <<>>]
Raise(message) == [kind |-> "raise", text |-> <<>>, message |-> message]
NoOutcome == [kind |-> "none", text |-> <<>>, message |-> <<>>]
service_down == <<"5", "0", "3">>

RecordCells ==
    {<<Str(i), Str(txt_Security), Str(txt_MFA), d>> :
        i \in {txt_A1, txt_B2}, d \in {Str(<<>>), Str(txt_desc), NaN}}

RecordFrames ==
    {Df(CanonicalColumns, rws) : rws \in UNION {[1..k -> RecordCells] : k \in 0..MaxRecords}}

one_record == Df(CanonicalColumns, <<<<Str(txt_A1), Str(txt_Security), Str(txt_MFA), Str(<<>>)>>>>)
doc_text == <<"W", "e", "\n", "2", "F", "A">>

AnalyzeInputs ==
    {[content |-> Str(doc_text), standards_df |-> d, outcome |-> Reply(body_one)] :
        d \in RecordFrames}
    \cup {[content |-> Str(doc_text), standards_df |-> one_record, outcome |-> Reply(t)] :
        t \in ReplyTexts}
    \cup {[content |-> Str(doc_text), standards_df |-> one_record,
           outcome |-> Raise(service_down)]}

-----------------------------------------------------------------------------
(* Inputs of the session: the files a user may put in the two uploaders,   *)
(* the API key, and what the service answers.  The tables give every      *)
(* canonical label to one column at most, as Field requires.               *)
NoDoc == [name |-> <<>>, paragraphs |-> <<>>]
NoFile == [name |-> <<>>, table |-> [columns |-> <<>>, rows |-> <<>>]]
Docs == {[name |-> <<"a", ".", "d", "o", "c", "x">>, paragraphs |-> <<>>],
         [name |-> <<"b", ".", "d", "o", "c", "x">>,
          paragraphs |-> << <<"W", "e">>, <<"2", "F", "A">> >>]}

table_plain ==
    [columns |-> << HeaderPool[3], HeaderPool[5], HeaderPool[7] >>,
     rows |-> << <<Str(txt_A1), Str(txt_Security), Str(txt_MFA)>> >>]
table_described ==
    [columns |-> << HeaderPool[1], HeaderPool[6], HeaderPool[7], HeaderPool[8] >>,
     rows |-> << <<Str(txt_A1), Str(txt_Security), Str(txt_MFA), Str(txt_desc)>>,
                 <<Str(txt_B2), Str(txt_Security), Str(txt_MFA), NaN>> >>]
table_req_only ==
    [columns |-> << HeaderPool[9] >>, rows |-> << <<Str(txt_MFA)>> >>]

StandardsFiles ==
    {[name |-> name_csv, table |-> table_plain],
     [name |-> name_xlsx, table |-> table_described],
     [name |-> name_csv, table |-> table_req_only],
     [name |-> name_upper, table |-> table_plain]}

Keys == {<<"k">>}

SessionOutcomes ==
    {Raise(service_down),
     Reply(body_one),
     Reply(fence_json \o <<"\n">> \o body_two \o <<"\n">> \o fence),
     Reply(body_empty_array),
     Reply(body_object),
     Reply(body_null),
     Reply(body_not_json),
     Reply(fence \o <<"\n">> \o body_not_json)}

-----------------------------------------------------------------------------
(* The locals and messages of a script run.                                 *)
RunRecord(kind, exc, outcome, a) ==
    [kind |-> kind, exc |-> exc, outcome |-> outcome, ret |-> a.ret,
     calls |-> a.calls, standards_text |-> a.standards_text,
     cleaning |-> a.cleaning, st_error |-> a.st_error]

NoAnalysis ==
    [ret |-> None, calls |-> 0, standards_text |-> <<>>, cleaning |-> NoCleaning,
     st_error |-> NoError]

(* One run of the script, top to bottom, with the widgets holding af, sf   *)
(* and key.  `clicked` says the run was caused by the 'Analyze Compliance' *)
(* button, and `outcome` is what the service then answers.  An exception   *)
(* leaving read_standards_file ends the run at that line.  The third tab   *)
(* only displays and exports st.session_state.findings and assigns no     *)
(* state, so the run ends here with the second tab.                        *)
ScriptRun(af, sf, key, clicked, outcome) ==
    \E content1 \in {IF af # NoDoc THEN Str(read_docx(af)) ELSE app_content} :
    \E r \in {read_standards_file(sf)} :
    \E standards1 \in {IF sf # NoFile THEN StoreStandards(standards, r) ELSE standards} :
    LET raised == sf # NoFile /\ r.exc # "none"
        show == ~raised /\ Truthy(content1) /\ standards1.t # "None" /\ key # <<>>
        analyze == show /\ clicked
    IN  \E a \in {IF analyze THEN analyze_compliance(content1, standards1, outcome)
                  ELSE NoAnalysis} :
        /\ app_file' = af
        /\ standards_file' = sf
        /\ api_key' = key
        /\ app_content' = content1
        /\ standards' = standards1
        /\ button_shown' = show
        /\ findings' = IF analyze THEN StoreFindings(findings, a.ret) ELSE findings
        /\ triggers' = triggers + (IF analyze THEN 1 ELSE 0)
        /\ requests' = requests + a.calls
        /\ run' = IF raised THEN RunRecord("aborted", r.exc, NoOutcome, a)
                  ELSE IF analyze THEN RunRecord("analysis", "none", outcome, a)
                  ELSE RunRecord("rendered", "none", NoOutcome, a)
        /\ UNCHANGED <<fn_pc, fn_in, fn_out>>

UploadApp(d) ==
    /\ d \in Docs
    /\ ScriptRun(d, standards_file, api_key, FALSE, NoOutcome)

RemoveApp ==
    /\ app_file # NoDoc
    /\ ScriptRun(NoDoc, standards_file, api_key, FALSE, NoOutcome)

UploadStandards(f) ==
    /\ f \in StandardsFiles
    /\ ScriptRun(app_file, f, api_key, FALSE, NoOutcome)

RemoveStandards ==
    /\ standards_file # NoFile
    /\ ScriptRun(app_file, NoFile, api_key, FALSE, NoOutcome)

EnterApiKey(k) ==
    /\ k # api_key
    /\ ScriptRun(app_file, standards_file, k, FALSE, NoOutcome)

ClickAnalyze(outcome) ==
    /\ button_shown
    /\ triggers < MaxTriggers
    /\ ScriptRun(app_file, standards_file, api_key, TRUE, outcome)

NoRun == RunRecord("none", "none", NoOutcome, NoAnalysis)

Init ==
    /\ app_file = NoDoc
    /\ standards_file = NoFile
    /\ api_key = <<>>
    /\ app_content = None
    /\ standards = None
    /\ findings = None
    /\ button_shown = FALSE
    /\ triggers = 0
    /\ requests = 0
    /\ run = NoRun
    /\ fn_pc = "off"
    /\ fn_in = None
    /\ fn_out = None

Next ==
    \/ \E d \in Docs : UploadApp(d)
    \/ RemoveApp
    \/ \E f \in StandardsFiles : UploadStandards(f)
    \/ RemoveStandards
    \/ \E k \in Keys \cup {<<>>} : EnterApiKey(k)
    \/ \E o \in SessionOutcomes : ClickAnalyze(o)

Spec == Init /\ [][Next]_vars

-----------------------------------------------------------------------------
(* read_standards_file and the assignment of its result, run once on a     *)
(* newly uploaded file, in a session that holds either no standards or     *)
(* the standards of an earlier upload.                                     *)
InitNorm ==
    /\ app_file = NoDoc
    /\ standards_file = NoFile
    /\ api_key = <<>>
    /\ app_content = None
    /\ standards \in {None, one_record}
    /\ findings = None
    /\ button_shown = FALSE
    /\ triggers = 0
    /\ requests = 0
    /\ run = NoRun
    /\ fn_pc = "ready"
    /\ fn_in \in NormInputs
    /\ fn_out = None

ApplyNormalize ==
    /\ fn_pc = "ready"
    /\ fn_pc' = "done"
    /\ fn_out' = read_standards_file(fn_in)
    /\ standards' = StoreStandards(standards, fn_out')
    /\ UNCHANGED <<fn_in, app_file, standards_file, api_key, app_content, findings,
                   button_shown, triggers, requests, run>>

NextNorm == ApplyNormalize

SpecNorm == InitNorm /\ [][NextNorm]_vars

-----------------------------------------------------------------------------
(* analyze_compliance run once on given standards and a given answer of    *)
(* the service.                                                            *)
InitAnalyze ==
    /\ app_file = NoDoc
    /\ standards_file = NoFile
    /\ api_key = <<>>
    /\ app_content = None
    /\ standards = None
    /\ findings = None
    /\ button_shown = FALSE
    /\ triggers = 0
    /\ requests = 0
    /\ run = NoRun
    /\ fn_pc = "ready"
    /\ fn_in \in AnalyzeInputs
    /\ fn_out = None

ApplyAnalyze ==
    /\ fn_pc = "ready"
    /\ fn_pc' = "done"
    /\ fn_out' = analyze_compliance(fn_in.content, fn_in.standards_df, fn_in.outcome)
    /\ UNCHANGED <<fn_in, sessionVars>>

NextAnalyze == ApplyAnalyze

SpecAnalyze == InitAnalyze /\ [][NextAnalyze]_vars

-----------------------------------------------------------------------------
(* Properties of read_standards_file, under SpecNorm.                       *)

(* The label col_mapping gives the source header h, NoMapping if none.      *)
MappedLabel(col_mapping, h) ==
    IF Strip(h) \in DOMAIN col_mapping THEN col_mapping[Strip(h)] ELSE NoMapping

HasKeyword(h, keywords) == \E k \in keywords : Contains(Lower(Strip(h)), k)

(* C1: every source header, stripped and lower-cased, is mapped by the     *)
(* first rule it matches, in the order ID (id, standard), Category         *)
(* (category, type), Requirement (requirement, standard), Description      *)
(* (description, detail); " ID ", "id", "Standard ID" and "Standard        *)
(* Requirement" all map to ID, and a header matching no rule is unmapped.  *)
C1_HeaderPriority ==
    fn_pc = "done" =>
        \A i \in 1..Len(fn_in.table.columns) :
            LET h == fn_in.table.columns[i]
                m == MappedLabel(fn_out.col_mapping, h)
                r1 == HasKeyword(h, {kw_id, kw_standard})
                r2 == HasKeyword(h, {kw_category, kw_type})
                r3 == HasKeyword(h, {kw_requirement, kw_standard})
                r4 == HasKeyword(h, {kw_description, kw_detail})
            IN  /\ r1 => m = ColID
                /\ (~r1 /\ r2) => m = ColCategory
                /\ (~r1 /\ ~r2 /\ r3) => m = ColRequirement
                /\ (~r1 /\ ~r2 /\ ~r3 /\ r4) => m = ColDescription
                /\ (~r1 /\ ~r2 /\ ~r3 /\ ~r4) => m = NoMapping
                /\ h \in {HeaderPool[1], HeaderPool[2], HeaderPool[3], HeaderPool[4]}
                       => m = ColID

(* A table holding "Standard Requirement", which matches two rules, an     *)
(* upper-case padded header and "Req #", which matches none, was mapped.   *)
C1_Witness ==
    /\ fn_pc = "done"
    /\ fn_in.table.columns = <<HeaderPool[4], HeaderPool[9], HeaderPool[10], HeaderPool[7]>>
    /\ MappedLabel(fn_out.col_mapping, HeaderPool[4]) = ColID
    /\ MappedLabel(fn_out.col_mapping, HeaderPool[9]) = NoMapping
    /\ MappedLabel(fn_out.col_mapping, HeaderPool[10]) = ColDescription
    /\ MappedLabel(fn_out.col_mapping, HeaderPool[7]) = ColRequirement

(* After the mapping, no column is mapped to one of ID, Category,          *)
(* Requirement.                                                            *)
RequiredAbsent(col_mapping) ==
    \E c \in {ColID, ColCategory, ColRequirement} :
        \A h \in DOMAIN col_mapping : col_mapping[h] # c

(* C2: on a table in which, after the mapping, one of ID, Category or      *)
(* Requirement is absent, the normalization raises (KeyError, the error    *)
(* the specification calls SchemaError), returns no record list, and       *)
(* nothing is assigned to the stored standards.                            *)
C2_MissingColumnFails ==
    [][(fn_pc = "ready" /\ fn_pc' = "done" /\ RequiredAbsent(fn_out'.col_mapping))
          => (/\ fn_out'.exc = "KeyError"
              /\ fn_out'.ret.t = "None"
              /\ standards' = standards)]_vars

(* The table whose only header is "Req #" was uploaded over stored         *)
(* standards: the call raised and the earlier standards are still there.   *)
C2_Witness ==
    /\ fn_pc = "done"
    /\ fn_in.table.columns = <<HeaderPool[9]>>
    /\ Len(fn_in.table.rows) = 1
    /\ fn_out.exc = "KeyError"
    /\ standards = one_record

(* C3: on a table with a column mapped to each of ID, Category and         *)
(* Requirement, the records have exactly the fields ID, Category,          *)
(* Requirement, Description, once each, the first three holding the cells  *)
(* of a source column mapped to that field, Description being "" in every  *)
(* row when no column was mapped to it, and unmapped columns are dropped.  *)
C3_CanonicalRecords ==
    (fn_pc = "done" /\ ~RequiredAbsent(fn_out.col_mapping)) =>
        /\ fn_out.exc = "none"
        /\ fn_out.ret.t = "df"
        /\ fn_out.ret.v.columns = CanonicalColumns
        /\ Len(fn_out.ret.v.rows) = Len(fn_in.table.rows)
        /\ \A r \in 1..Len(fn_in.table.rows) :
              /\ Len(fn_out.ret.v.rows[r]) = 4
              /\ \A k \in 1..3 :
                    \E c \in 1..Len(fn_in.table.columns) :
                        /\ MappedLabel(fn_out.col_mapping, fn_in.table.columns[c])
                              = CanonicalColumns[k]
                        /\ fn_out.ret.v.rows[r][k] = fn_in.table.rows[r][c]
              /\ (\A h \in DOMAIN fn_out.col_mapping :
                      fn_out.col_mapping[h] # ColDescription)
                    => fn_out.ret.v.rows[r][4] = Str(<<>>)

-----------------------------------------------------------------------------
(* Properties of analyze_compliance, under SpecAnalyze.                     *)

FencedJson(J) == fence_json \o <<"\n">> \o J \o <<"\n">> \o fence
FencedPlain(J) == fence \o <<"\n">> \o J \o <<"\n">> \o fence

(* C4: the cleaning removes at most one opening and one closing marker     *)
(* from any reply, and for every JSON text J the replies "```json\nJ\n```", *)
(* "```\nJ\n```" and J itself all give the value J parses to.               *)
C4_OneFencePair ==
    (fn_pc = "done" /\ fn_in.outcome.kind = "reply") =>
        /\ fn_out.cleaning.opened <= 1
        /\ fn_out.cleaning.closed <= 1
        /\ \A J \in JsonBodies :
              fn_in.outcome.text \in {FencedJson(J), FencedPlain(J), J}
                  => (fn_out.st_error = NoError /\ fn_out.ret = json_loads(J).val)

(* C5: when the reply, trimmed and stripped of fences, is not valid JSON,  *)
(* the analysis fails with the decoding error and the raw reply text can   *)
(* be read from the error that is reported.                                *)
C5_RawReplyInError ==
    (fn_pc = "done" /\ fn_in.outcome.kind = "reply"
        /\ ~json_loads(fn_out.cleaning.text).ok) =>
        /\ fn_out.ret = None
        /\ fn_out.st_error.exc = "JSONDecodeError"
        /\ Contains(fn_out.st_error.detail, fn_in.outcome.text)

(* The lines the standards block is to hold for one record.                 *)
ClaimedLines(row) ==
    <<"\n">> \o row[1].v \o lit_dash \o row[2].v \o lit_colon \o row[3].v \o <<"\n">>
        \o (IF row[4].t = "str" /\ row[4].v # <<>>
            THEN lit_description \o row[4].v \o <<"\n">>
            ELSE <<>>)

(* C8: the standards block is, for each record in input order, the line    *)
(* "{id} - {category}: {requirement}" followed by a "Description: ..."     *)
(* line exactly when the record has a non-empty description.               *)
C8_RenderedBlock ==
    fn_pc = "done" =>
        fn_out.standards_text =
            Flatten([i \in 1..Len(fn_in.standards_df.v.rows) |->
                        ClaimedLines(fn_in.standards_df.v.rows[i])])

-----------------------------------------------------------------------------
(* Properties of the session, under Spec.                                   *)

(* This step is a script run in which the button was pressed and           *)
(* analyze_compliance was called.                                          *)
Triggered == triggers' = triggers + 1 /\ run'.kind = "analysis"

C7_ReplacedWholesale ==
    [][(Triggered /\ findings # None /\ run'.st_error = NoError /\ run'.ret.t = "arr")
          => findings' = run'.ret]_vars

(* C9: a reply that is valid JSON but not an array is a failure: neither   *)
(* the value analyze_compliance returns nor the stored findings is ever    *)
(* anything but None or an array of objects.                               *)
IsFindingsArray(x) == x.t = "arr" /\ \A i \in 1..Len(x.v) : x.v[i].t = "obj"

C9_OnlyArraysStored ==
    /\ findings = None \/ IsFindingsArray(findings)
    /\ run.kind = "analysis" => (run.ret = None \/ IsFindingsArray(run.ret))

(* C10: a trigger whose analyze_compliance call returns None leaves the    *)
(* stored findings as they were; the stored findings change only to the    *)
(* value a triggered call returned, never to None or a substitute; and a   *)
(* call returning a non-empty sequence always stores it.                   *)
C10_FailureKeepsFindings ==
    [][/\ (Triggered /\ run'.ret = None) => findings' = findings
       /\ findings' # findings =>
             (Triggered /\ run'.ret # None /\ findings' = run'.ret)
       /\ (Triggered /\ run'.ret.t = "arr" /\ run'.ret.v # <<>>)
             => findings' = run'.ret]_vars

(* After a successful analysis, a trigger got an unparsable reply and the  *)
(* earlier findings are still stored.                                      *)
C10_Witness ==
    /\ run.kind = "analysis"
    /\ run.st_error.exc = "JSONDecodeError"
    /\ run.ret = None
    /\ findings.t = "arr"
    /\ findings.v # <<>>

====
